---- MODULE Spec2Model ----
(***************************************************************************)
(* State-machine model of the VisualMusic note registry (App.svelte) and   *)
(* of the music-theory engine (services/MusicTheoryService.ts).            *)
(*                                                                         *)
(* Note names are pairs <<pitch class name, octave>>: the handlers build   *)
(* a name as `note.name + octave` and the engine reads it back with        *)
(* Note.get(name).pc, which drops the octave again.                        *)
(* A Map or Set of the program is a sequence without duplicates, in        *)
(* insertion order, because the program iterates both in that order.       *)
(* A confidence k/n is the pair [num |-> k, den |-> n].                    *)
(***************************************************************************)
EXTENDS Integers, Sequences, FiniteSets, TLC

(***************************************************************************)
(* Bounds of the model.                                                    *)
(***************************************************************************)
\* The clock stops advancing once it has reached MaxTime (milliseconds).
MaxTime == 3001
\* The engine harness observes at most MaxObserved pitch classes.
MaxObserved == 4
\* No NoteOn for a new pitch while the registry holds MaxNotes entries.
MaxNotes == 3
\* No NoteOn for a new pitch class while the history holds MaxHistory classes.
MaxHistory == 4

\* The keys of the virtual piano the model presses: C4, F4, A#4, B4, C5.
Pitches == {60, 65, 70, 71, 72}
\* The keys of the MIDI keyboard the model presses (C4), and the velocities
\* it sends, in hundredths.
MidiPitches == {60}
MidiVelocities == {50}

\* null, where the program holds a KeySignatureInfo or null.
NoKey == [keyName |-> "null", notes |-> <<>>, confidence |-> [num |-> 0, den |-> 1]]

(***************************************************************************)
(* Pitch classes and their spelling (what @tonaljs/tonal computes).        *)
(***************************************************************************)
\* PianoSimulator.svelte noteMap, read from chroma to name.
noteMap == <<"C", "C#", "D", "D#", "E", "F", "F#", "G", "G#", "A", "A#", "B">>

Letters == <<"C", "D", "E", "F", "G", "A", "B">>
LetterChroma == <<0, 2, 4, 5, 7, 9, 11>>

Accidental(alt) ==
  CASE alt = 0 -> ""
    [] alt = 1 -> "#"
    [] alt = 2 -> "##"
    [] alt = -1 -> "b"
    [] alt = -2 -> "bb"

\* The name of the pitch class with letter index step (0..6) and alteration alt.
PcName(step, alt) == Letters[step + 1] \o Accidental(alt)

Spellings == {[step |-> s, alt |-> a] : s \in 0..6, a \in -2..2}
PcNames == {PcName(p.step, p.alt) : p \in Spellings}

\* Parsing a pitch class name gives back its letter and alteration.
ParsePc == [n \in PcNames |-> CHOOSE p \in Spellings : PcName(p.step, p.alt) = n]

\* Note.get(pc).chroma, for every pitch class name.
ChromaOf == [n \in PcNames |-> (LetterChroma[ParsePc[n].step + 1] + ParsePc[n].alt + 12) % 12]
Chroma(pc) == ChromaOf[pc]

\* Note.get(name).pc : the note name without its octave.
NotePc(name) == name[1]

\* A name Note.get cannot parse, "H4" for one: Note.get gives the empty note,
\* whose pc is the empty string.
Malformed == <<"", 0>>

\* An interval is [step, semitones]; transposing keeps the letter distance
\* and picks the alteration that gives the semitone distance.
Transpose(pc, ivl) ==
  LET step == (ParsePc[pc].step + ivl.step) % 7
      chroma == (Chroma(pc) + ivl.semitones) % 12
      diff == (chroma - LetterChroma[step + 1] + 12) % 12
      alt == IF diff > 6 THEN diff - 12 ELSE diff
  IN PcName(step, alt)

Ivl(s, h) == [step |-> s, semitones |-> h]

\* The scale dictionary, in the library's order, cut down to the entries
\* the catalog can name plus two that it cannot.
ScaleTypes ==
  << [name |-> "major pentatonic", aliases |-> {"pentatonic"},
      intervals |-> <<Ivl(0,0), Ivl(1,2), Ivl(2,4), Ivl(4,7), Ivl(5,9)>>],
     [name |-> "major", aliases |-> {"ionian"},
      intervals |-> <<Ivl(0,0), Ivl(1,2), Ivl(2,4), Ivl(3,5), Ivl(4,7), Ivl(5,9), Ivl(6,11)>>],
     [name |-> "minor", aliases |-> {"aeolian"},
      intervals |-> <<Ivl(0,0), Ivl(1,2), Ivl(2,3), Ivl(3,5), Ivl(4,7), Ivl(5,8), Ivl(6,10)>>],
     [name |-> "chromatic", aliases |-> {},
      intervals |-> <<Ivl(0,0), Ivl(1,1), Ivl(1,2), Ivl(2,3), Ivl(2,4), Ivl(3,5),
                      Ivl(4,6), Ivl(4,7), Ivl(5,8), Ivl(5,9), Ivl(6,10), Ivl(6,11)>>] >>

TypeNames == UNION {{ScaleTypes[i].name} \cup ScaleTypes[i].aliases : i \in DOMAIN ScaleTypes}

\* The pitch class set of a scale type, relative to its tonic.
TypeChroma(st) == {st.intervals[i].semitones : i \in DOMAIN st.intervals}
ScaleChromas == [i \in DOMAIN ScaleTypes |-> TypeChroma(ScaleTypes[i])]

ScaleName(tonic, type) == tonic \o " " \o type

\* Splitting a scale name at the blank gives its tonic and its type.
Tokenize(scaleName) ==
  CHOOSE tk \in PcNames \X TypeNames : ScaleName(tk[1], tk[2]) = scaleName

\* ScaleType.get : by name or by alias.
ScaleTypeGet(type) ==
  ScaleTypes[CHOOSE i \in DOMAIN ScaleTypes :
               type = ScaleTypes[i].name \/ type \in ScaleTypes[i].aliases]

\* Scale.get(name).notes
ScaleNotes(scaleName) ==
  LET tk == Tokenize(scaleName)
      st == ScaleTypeGet(tk[2])
  IN [i \in DOMAIN st.intervals |-> Transpose(tk[1], st.intervals[i])]

Range(s) == {s[i] : i \in DOMAIN s}

\* Scale.detect(notes): the tonic is the first note; the scale type whose
\* pitch class set is exactly the notes' comes first, then every scale type
\* whose set is a proper superset, in dictionary order.
ScaleDetect(notes) ==
  IF notes = <<>> \/ notes[1] = "" THEN <<>>   \* no tonic: nothing is reported
  ELSE LET tonic == notes[1]
           valid == {i \in DOMAIN notes : notes[i] # ""}
           rel == {(Chroma(notes[i]) - Chroma(tonic) + 12) % 12 : i \in valid}
           all == [i \in DOMAIN ScaleTypes |-> i]
           exact == SelectSeq(all, LAMBDA i : ScaleChromas[i] = rel)
           extended == SelectSeq(all,
                         LAMBDA i : rel \subseteq ScaleChromas[i] /\ rel # ScaleChromas[i])
           found == exact \o extended
       IN [i \in DOMAIN found |-> ScaleName(tonic, ScaleTypes[found[i]].name)]


(***************************************************************************)
(* MusicTheoryService: the key estimator and the note classifier.          *)
(***************************************************************************)
commonKeys ==
  << "C major", "G major", "D major", "A major", "E major", "B major",
     "F# major", "Db major", "Ab major", "Eb major", "Bb major", "F major",
     "A minor", "E minor", "B minor", "F# minor", "C# minor", "G# minor",
     "D# minor", "Bb minor", "F minor", "C minor", "G minor", "D minor" >>

CatalogNames == Range(commonKeys)

\* Scale.get(keyName).notes for the catalog's keys, computed once.
CatalogNotes == [k \in CatalogNames |-> ScaleNotes(k)]

\* Scale.get(keyName).notes.
ScaleGetNotes(keyName) ==
  IF keyName \in CatalogNames THEN CatalogNotes[keyName] ELSE ScaleNotes(keyName)

\* Faulty variant: every reported scale passes.
getEveryMatch(scaleMatches) == scaleMatches

getCommonKeyMatches(scaleMatches) ==
  SelectSeq(scaleMatches, LAMBDA scale : scale \in CatalogNames)

\* a.confidence > b.confidence, on fractions.
Greater(a, b) == a.num * b.den > b.num * a.den

\* Faulty variant: the ratio is taken the wrong way round.
keysWithInvertedRatio(keyMatches, allNotes) ==
  [i \in DOMAIN keyMatches |->
     LET scaleNotes == ScaleGetNotes(keyMatches[i])
         matchingNotes == SelectSeq(allNotes, LAMBDA note : note \in Range(scaleNotes))
     IN [keyName |-> keyMatches[i],
         notes |-> scaleNotes,
         confidence |-> [num |-> Len(allNotes), den |-> Len(matchingNotes)]]]

\* keysWithConfidence: one entry per key match, in the order of the matches.
keysWithConfidence(keyMatches, allNotes) ==
  [i \in DOMAIN keyMatches |->
     LET scaleNotes == ScaleGetNotes(keyMatches[i])
         matchingNotes == SelectSeq(allNotes, LAMBDA note : note \in Range(scaleNotes))
     IN [keyName |-> keyMatches[i],
         notes |-> scaleNotes,
         confidence |-> [num |-> Len(matchingNotes), den |-> Len(allNotes)]]]

\* Faulty variant: an unstable sort, an entry goes ahead of its equals.
InsertAheadOfEqual(k, sorted) ==
  LET ahead == {i \in DOMAIN sorted : Greater(sorted[i].confidence, k.confidence)}
      n == IF ahead = {} THEN 0 ELSE CHOOSE i \in ahead : \A j \in ahead : j <= i
  IN SubSeq(sorted, 1, n) \o <<k>> \o SubSeq(sorted, n + 1, Len(sorted))

\* Array.prototype.sort with (a, b) => b.confidence - a.confidence : stable,
\* descending. An entry goes behind every entry that is not smaller than it.
InsertByConfidence(k, sorted) ==
  LET ahead == {i \in DOMAIN sorted : ~Greater(k.confidence, sorted[i].confidence)}
      n == IF ahead = {} THEN 0 ELSE CHOOSE i \in ahead : \A j \in ahead : j <= i
  IN SubSeq(sorted, 1, n) \o <<k>> \o SubSeq(sorted, n + 1, Len(sorted))

RECURSIVE SortByConfidence(_)
SortByConfidence(keys) ==
  IF keys = <<>> THEN <<>>
  ELSE InsertByConfidence(keys[Len(keys)], SortByConfidence(SubSeq(keys, 1, Len(keys) - 1)))

\* detectKey from the line after Scale.detect on: the value it returns when
\* Scale.detect has reported matches for the history allNotes.
detectKeyFrom(matches, allNotes) ==
  LET keyMatches == getCommonKeyMatches(matches)
  IN IF Len(keyMatches) = 0 THEN NoKey
     ELSE SortByConfidence(keysWithConfidence(keyMatches, allNotes))[1]

\* Faulty variant: no evidence floor.
detectKeyWithoutFloor(allNotes) ==
  detectKeyFrom(ScaleDetect(allNotes), allNotes)

\* The value detectKey returns for the history allNotes.
detectKey(allNotes) ==
  IF Len(allNotes) < 3 THEN NoKey
  ELSE detectKeyFrom(ScaleDetect(allNotes), allNotes)

\* detectKey's scaleMatches after a call on the history allNotes: Scale.detect
\* is not called below the evidence floor.
MatchesAfterDetect(matches, allNotes) ==
  IF Len(allNotes) < 3 THEN matches ELSE ScaleDetect(allNotes)

\* this.currentKey after a detectKey call that returned key: assigned only on
\* the path that found a key.
KeyAfterDetect(cached, key) ==
  IF key = NoKey THEN cached ELSE key

\* Faulty variant: a name without a pitch class passes for a note of the key.
isNoteInKeyOrUnknown(key, noteName) ==
  key = NoKey \/ NotePc(noteName) = "" \/ NotePc(noteName) \in Range(key.notes)

isNoteInKey(key, noteName) ==
  IF key = NoKey THEN TRUE
  ELSE NotePc(noteName) \in Range(key.notes)

\* Faulty variant: the notes outside the key are dropped.
processNotesInKeyOnly(key, notes) ==
  IF key = NoKey THEN notes
  ELSE SelectSeq(notes, LAMBDA note : isNoteInKey(key, note.name))

processNotes(key, notes) ==
  IF key = NoKey
  THEN [i \in DOMAIN notes |-> [notes[i] EXCEPT !.inKey = TRUE]]
  ELSE [i \in DOMAIN notes |-> [notes[i] EXCEPT !.inKey = isNoteInKey(key, notes[i].name)]]

\* Interval.distance(note1, note2), with Interval.semitones of it: the
\* interval number comes from the letters and octaves, the quality from what
\* the semitone distance adds to the natural interval; a lower second note
\* gives the interval of the reversed pair with a minus sign.
Height(name) == ChromaOf[name[1]] + 12 * (name[2] + 1)
Steps(name) == ParsePc[name[1]].step + 7 * name[2]

Repeat(c, n) == CASE n = 0 -> "" [] n = 1 -> c [] n = 2 -> c \o c [] n = 3 -> c \o c \o c

Quality(simple, alt) ==
  IF simple \in {0, 3, 4}
  THEN IF alt = 0 THEN "P" ELSE IF alt > 0 THEN Repeat("A", alt) ELSE Repeat("d", -alt)
  ELSE IF alt = 0 THEN "M"
       ELSE IF alt = -1 THEN "m"
       ELSE IF alt > 0 THEN Repeat("A", alt) ELSE Repeat("d", -alt - 1)

AscendingName(from, to) ==
  LET steps == Steps(to) - Steps(from)
      natural == LetterChroma[(steps % 7) + 1] + 12 * (steps \div 7)
  IN ToString(steps + 1) \o Quality(steps % 7, Height(to) - Height(from) - natural)

IntervalDistance(note1, note2) ==
  IF NotePc(note1) = "" \/ NotePc(note2) = "" THEN ""
  ELSE IF Height(note2) >= Height(note1)
  THEN AscendingName(note1, note2)
  ELSE "-" \o AscendingName(note2, note1)

\* getMidiNoteNumber read backwards: the name of the key with a MIDI number.
NoteNameOf(number) == <<noteMap[(number % 12) + 1], (number \div 12) - 1>>

\* The IntervalInfo of one pair.
IntervalInfo(note1, note2) ==
  [name |-> IntervalDistance(note1, note2),
   semitones |-> IF IntervalDistance(note1, note2) = "" THEN 0   \* undefined || 0
                 ELSE Height(note2) - Height(note1),
   noteNames |-> <<note1, note2>>]

\* detectIntervals over the service's copy of the notes: the pairs i < j, in
\* the order of the two loops.
RECURSIVE PairsFrom(_, _, _)
PairsFrom(names, i, j) ==
  IF i >= Len(names) THEN <<>>
  ELSE IF j > Len(names) THEN PairsFrom(names, i + 1, i + 2)
  ELSE <<IntervalInfo(names[i], names[j])>> \o PairsFrom(names, i, j + 1)

\* Faulty variant: only neighbouring notes are paired.
detectIntervalsOfNeighbours(notes) ==
  [i \in 1..(Len(notes) - 1) |-> IntervalInfo(notes[i].name, notes[i + 1].name)]

detectIntervals(notes) ==
  LET activeNoteNames == [i \in DOMAIN notes |-> notes[i].name]
  IN IF Len(activeNoteNames) < 2 THEN <<>> ELSE PairsFrom(activeNoteNames, 1, 2)

\* Set.add of one pitch class: a class already in the set keeps its place.
addNoteToCollection(played, noteName) ==
  IF NotePc(noteName) \in Range(played) THEN played
  ELSE Append(played, NotePc(noteName))

\* Faulty variant: only the notes still held are added to the history.
RECURSIVE addHeldToCollection(_, _)
addHeldToCollection(played, notes) ==
  IF notes = <<>> THEN played
  ELSE addHeldToCollection(IF Head(notes).active
                           THEN addNoteToCollection(played, Head(notes).name)
                           ELSE played,
                           Tail(notes))

\* The history after setActiveNotes(notes).
RECURSIVE addAllToCollection(_, _)
addAllToCollection(played, notes) ==
  IF notes = <<>> THEN played
  ELSE addAllToCollection(addNoteToCollection(played, Head(notes).name), Tail(notes))


(***************************************************************************)
(* MusicTheoryService: the chord detector.                                 *)
(***************************************************************************)
\* A chord type tag is the sequence of its characters, so that
\* String.prototype.includes can be computed on it.
RECURSIVE Str(_)
Str(chars) == IF chars = <<>> THEN "" ELSE Head(chars) \o Str(Tail(chars))

Includes(chars, sub) ==
  \E i \in 1..(Len(chars) - Len(sub) + 1) : SubSeq(chars, i, i + Len(sub) - 1) = sub

\* The fifth and the triads of the chord dictionary: name, first alias and
\* intervals.
ChordTypes ==
  << [name |-> <<"f","i","f","t","h">>, alias |-> "5",
      intervals |-> <<Ivl(0,0), Ivl(4,7)>>],
     [name |-> <<"m","a","j","o","r">>, alias |-> "M",
      intervals |-> <<Ivl(0,0), Ivl(2,4), Ivl(4,7)>>],
     [name |-> <<"m","i","n","o","r">>, alias |-> "m",
      intervals |-> <<Ivl(0,0), Ivl(2,3), Ivl(4,7)>>],
     [name |-> <<"d","i","m","i","n","i","s","h","e","d">>, alias |-> "dim",
      intervals |-> <<Ivl(0,0), Ivl(2,3), Ivl(4,6)>>],
     [name |-> <<"s","u","s","p","e","n","d","e","d"," ","f","o","u","r","t","h">>,
      alias |-> "sus4",
      intervals |-> <<Ivl(0,0), Ivl(3,5), Ivl(4,7)>>],
     [name |-> <<"s","u","s","p","e","n","d","e","d"," ","s","e","c","o","n","d">>,
      alias |-> "sus2",
      intervals |-> <<Ivl(0,0), Ivl(1,2), Ivl(4,7)>>],
     [name |-> <<"a","u","g","m","e","n","t","e","d">>, alias |-> "aug",
      intervals |-> <<Ivl(0,0), Ivl(2,4), Ivl(4,8)>>] >>

ChordChromas == [i \in DOMAIN ChordTypes |-> TypeChroma(ChordTypes[i])]

\* A match of Chord.detect: the note the chord is built on, its type, and the
\* first note of the input when the chord is an inversion ("" when it is not).
ChordMatch(tonic, type, bass) == [tonic |-> tonic, type |-> type, bass |-> bass]

\* The name Chord.detect gives a match.
ChordName(match) ==
  match.tonic \o ChordTypes[match.type].alias
    \o (IF match.bass = "" THEN "" ELSE "/" \o match.bass)

\* The matches built on the input note with pitch chroma, if there is one.
RECURSIVE MatchesFrom(_, _)
MatchesFrom(pcs, chroma) ==
  IF chroma > 11 THEN <<>>
  ELSE LET here == {i \in DOMAIN pcs : Chroma(pcs[i]) = chroma}
           base == pcs[CHOOSE i \in here : \A j \in here : j <= i]
           rel == {(Chroma(pcs[i]) - chroma + 12) % 12 : i \in DOMAIN pcs}
           all == [i \in DOMAIN ChordTypes |-> i]
           types == SelectSeq(all, LAMBDA i : ChordChromas[i] = rel)
           bass == IF chroma = Chroma(pcs[1]) THEN "" ELSE pcs[1]
       IN (IF here = {} THEN <<>>
           ELSE [i \in DOMAIN types |-> ChordMatch(base, types[i], bass)])
          \o MatchesFrom(pcs, chroma + 1)

\* Chord.detect(pcs): the chords on the first note come first, the
\* inversions after them, each group from the lowest pitch class up.
ChordDetect(source) ==
  LET pcs == SelectSeq(source, LAMBDA pc : pc # "")
      found == IF pcs = <<>> THEN <<>> ELSE MatchesFrom(pcs, 0)
  IN SelectSeq(found, LAMBDA match : match.bass = "")
     \o SelectSeq(found, LAMBDA match : match.bass # "")

\* Chord.get(name).notes: the notes of the chord from its tonic; from the
\* bass when the chord holds the bass, and behind the bass when it does not.
ChordNotes(match) ==
  LET ivls == ChordTypes[match.type].intervals
      notes == [i \in DOMAIN ivls |-> Transpose(match.tonic, ivls[i])]
      up == IF match.bass = "" THEN Ivl(0, 0)
            ELSE Ivl((ParsePc[match.bass].step - ParsePc[match.tonic].step + 7) % 7,
                     (Chroma(match.bass) - Chroma(match.tonic) + 12) % 12)
      at == {i \in DOMAIN ivls : ivls[i] = up}
  IN IF match.bass = "" THEN notes
     ELSE IF at # {}
          THEN LET k == CHOOSE i \in at : TRUE
               IN SubSeq(notes, k, Len(notes)) \o SubSeq(notes, 1, k - 1)
          ELSE <<match.bass>> \o notes

getChordQuality(chordType) ==
  IF Includes(chordType, <<"m","a","j">>) \/ chordType = <<"M">> \/ chordType = <<>>
  THEN "major"
  ELSE IF Includes(chordType, <<"m","i","n">>) \/ chordType = <<"m">> THEN "minor"
  ELSE IF Includes(chordType, <<"d","i","m">>) THEN "diminished"
  ELSE IF Includes(chordType, <<"a","u","g">>) THEN "augmented"
  ELSE IF Includes(chordType, <<"s","u","s">>) THEN "suspended"
  ELSE Str(chordType)

\* null, where the program holds a Roman numeral or null.
NoNumeral == "null"

numerals == <<"I", "II", "III", "IV", "V", "VI", "VII">>
ToLowerCase == <<"i", "ii", "iii", "iv", "v", "vi", "vii">>

\* Key.majorKey(keyName.split(" ")[0]).scale for the catalog's keys.
MajorKeyScale == [k \in CatalogNames |-> ScaleNotes(ScaleName(Tokenize(k)[1], "major"))]

\* getRomanNumeral, with the key the engine has cached.
getRomanNumeral(key, rootNote, chordType) ==
  IF key = NoKey \/ rootNote = "" THEN NoNumeral
  ELSE LET scaleNotes == MajorKeyScale[key.keyName]
           found == {i \in DOMAIN scaleNotes : scaleNotes[i] = rootNote}
       IN IF found = {} THEN NoNumeral
          ELSE LET degree == CHOOSE i \in found : TRUE
                   quality == getChordQuality(chordType)
               IN IF quality = "minor" THEN ToLowerCase[degree]
                  ELSE IF quality = "diminished" THEN ToLowerCase[degree] \o "°"
                  ELSE IF quality = "augmented" THEN numerals[degree] \o "+"
                  ELSE numerals[degree]

\* The pitch classes of the notes, each once, in the order of the notes.
RECURSIVE UniquePitchClasses(_)
UniquePitchClasses(notes) ==
  IF notes = <<>> THEN <<>>
  ELSE LET before == UniquePitchClasses(SubSeq(notes, 1, Len(notes) - 1))
           pc == NotePc(notes[Len(notes)].name)
       IN IF pc \in Range(before) THEN before ELSE Append(before, pc)

\* detectChords from Chord.detect on: one ChordInfo per detected chord.
chordsOf(key, uniquePitchClasses) ==
  LET possibleChords == ChordDetect(uniquePitchClasses)
  IN [i \in DOMAIN possibleChords |->
        LET chord == possibleChords[i]
            type == ChordTypes[chord.type].name
        IN [name |-> ChordName(chord),
            type |-> Str(type),
            quality |-> getChordQuality(type),
            notes |-> ChordNotes(chord),
            romanNumeral |-> getRomanNumeral(key, chord.tonic, type)]]

\* Faulty variant: no floor of three pitch classes.
detectChordsWithoutFloor(key, notes) ==
  chordsOf(key, UniquePitchClasses(notes))

\* detectChords over the service's copy of the notes.
detectChords(key, notes) ==
  LET uniquePitchClasses == UniquePitchClasses(notes)
  IN IF Len(uniquePitchClasses) < 3 THEN <<>>
     ELSE chordsOf(key, uniquePitchClasses)


(***************************************************************************)
(* The components beside the analysis core: the synthesizer's voices, the  *)
(* PDF viewer's page state and render queue, the controller service.       *)
(***************************************************************************)
VARIABLES
  voices,             \* SynthService.voices: Map note -> voice
  cleanups,           \* the setTimeout callbacks noteOff scheduled, oldest first
  stopped,            \* the voices whose oscillators were told to stop
  created,            \* how many voices noteOn has created
  pdfDoc,             \* PdfViewer: a document is loaded
  pageNum,            \* PdfViewer.pageNum
  pageCount,          \* PdfViewer.pageCount
  pagesPerView,       \* PdfViewer.pagesPerView
  pageRendering,      \* PdfViewer.pageRendering
  pageNumPending,     \* PdfViewer.pageNumPending: <<>> is null
  rendering,          \* the renders that started and have not finished
  lastRendered,       \* the page of the render that finished last: <<>> is none
  listeners,          \* ControllerService.listeners: event type -> callbacks
  isRunning,          \* ControllerService.isRunning
  keydownHandlers,    \* the keydown handlers attached to window
  activeKeys,         \* ControllerService.activeKeys
  mounted,            \* the components that are mounted, with their instance
  mounts,             \* how many components were mounted so far
  invoked             \* the callbacks the last key press invoked

synthVars == <<voices, cleanups, stopped, created>>

pdfVars == <<pdfDoc, pageNum, pageCount, pagesPerView, pageRendering,
             pageNumPending, rendering, lastRendered>>

controllerVars == <<listeners, isRunning, keydownHandlers, activeKeys, mounted,
                    mounts, invoked>>

componentVars == <<synthVars, pdfVars, controllerVars>>

(***************************************************************************)
(* SynthService: noteOn, noteOff and the cleanup noteOff schedules.        *)
(***************************************************************************)
MaxVoices == 5
MaxCleanups == 3
SynthNotes == {60, 62}

SynthInit ==
  /\ voices = [note \in {} |-> 0]
  /\ cleanups = <<>>
  /\ stopped = {}
  /\ created = 0

\* noteOff's effect on the oscillators: the voice stored under the note, if
\* there is one, is told to stop.
StoppedByNoteOff(note) ==
  IF note \in DOMAIN voices THEN stopped \cup {voices[note]} ELSE stopped

\* noteOff's timer: a cleanup that carries the note, not the voice.
CleanupsAfterNoteOff(note) ==
  IF note \in DOMAIN voices THEN Append(cleanups, note) ELSE cleanups

\* Stop a note: without a voice under the note it returns at once.
noteOff(note) ==
  /\ Len(CleanupsAfterNoteOff(note)) <= MaxCleanups
  /\ stopped' = StoppedByNoteOff(note)
  /\ cleanups' = CleanupsAfterNoteOff(note)
  /\ UNCHANGED <<voices, created>>

\* Play a note: a note that is already in the map is stopped first, then the
\* new voice is stored under the note.
noteOn(note) ==
  /\ created < MaxVoices
  /\ Len(CleanupsAfterNoteOff(note)) <= MaxCleanups
  /\ stopped' = StoppedByNoteOff(note)
  /\ cleanups' = CleanupsAfterNoteOff(note)
  /\ created' = created + 1
  /\ voices' = [n \in DOMAIN voices \cup {note} |->
                  IF n = note THEN created + 1 ELSE voices[n]]

\* The oldest timer fires: this.voices.delete(note). The timers share one
\* delay, so they fire in the order they were set.
cleanup ==
  /\ cleanups # <<>>
  /\ voices' = [n \in DOMAIN voices \ {Head(cleanups)} |-> voices[n]]
  /\ cleanups' = Tail(cleanups)
  /\ UNCHANGED <<stopped, created>>

(***************************************************************************)
(* PdfViewer.svelte: the page state.                                       *)
(***************************************************************************)
PdfInit ==
  /\ pdfDoc = FALSE
  /\ pageNum = 1
  /\ pageCount = 0
  /\ pagesPerView = 1
  /\ pageRendering = FALSE
  /\ pageNumPending = <<>>
  /\ rendering = <<>>
  /\ lastRendered = <<>>

Min(a, b) == IF a < b THEN a ELSE b

Max(a, b) == IF a > b THEN a ELSE b

\* pdfDoc.numPages of the documents the model loads.
PageCounts == {1, 3, 7}

MaxRenders == 2

RemoveAt(seq, index) ==
  [i \in 1..(Len(seq) - 1) |-> IF i < index THEN seq[i] ELSE seq[i + 1]]

\* renderPages up to its first await: without a document it returns, with
\* one it raises pageRendering and the render is under way.
renderPages(startPageNum) ==
  IF pdfDoc'
  THEN /\ pageRendering' = TRUE
       /\ rendering' = Append(rendering, startPageNum)
  ELSE UNCHANGED <<pageRendering, rendering>>

queueRenderPages(startPageNum) ==
  IF pageRendering
  THEN /\ pageNumPending' = <<startPageNum>>
       /\ UNCHANGED <<pageRendering, rendering>>
  ELSE /\ renderPages(startPageNum)
       /\ UNCHANGED pageNumPending

\* loadPdf from the point where getDocument has resolved.
loadPdf(numPages) ==
  /\ pdfDoc' = TRUE
  /\ pageCount' = numPages
  /\ pageNum' = 1
  /\ queueRenderPages(1)
  /\ UNCHANGED <<pagesPerView, lastRendered>>

\* renderPages from its last await to its end: errors are caught page by
\* page, so the end is reached either way, and a pending request is rendered.
renderPagesEnd ==
  /\ rendering # <<>>
  /\ \E i \in DOMAIN rendering :
       /\ lastRendered' = <<rendering[i]>>
       /\ IF pageNumPending # <<>>
          THEN /\ pageRendering' = TRUE
               /\ rendering' = Append(RemoveAt(rendering, i), pageNumPending[1])
               /\ pageNumPending' = <<>>
          ELSE /\ pageRendering' = FALSE
               /\ rendering' = RemoveAt(rendering, i)
               /\ UNCHANGED pageNumPending
  /\ UNCHANGED <<pdfDoc, pageNum, pageCount, pagesPerView>>

\* The select's change handler: the bound value is clamped to 1..4 and the
\* page number moves to the first page of its set.
updatePagesPerView(value) ==
  /\ pdfDoc
  /\ pagesPerView' = Max(1, Min(4, value))
  /\ pageNum' = IF pagesPerView' > 1
                THEN ((pageNum - 1) \div pagesPerView') * pagesPerView' + 1
                ELSE pageNum
  /\ UNCHANGED <<pdfDoc, pageCount, lastRendered>>
  /\ queueRenderPages(pageNum')

prevPage ==
  /\ pageNum > 1
  /\ pageNum' = Max(1, pageNum - pagesPerView)
  /\ UNCHANGED <<pdfDoc, pageCount, pagesPerView, lastRendered>>
  /\ queueRenderPages(pageNum')

nextPage ==
  /\ pageNum + pagesPerView <= pageCount
  /\ pageNum' = pageNum + pagesPerView
  /\ UNCHANGED <<pdfDoc, pageCount, pagesPerView, lastRendered>>
  /\ queueRenderPages(pageNum')

\* The callback setupControllerEvents registers for an event type; the
\* zoom and fullscreen callbacks leave the page state alone.
controllerEvent(eventType) ==
  /\ eventType \in {"dpad_left", "dpad_right", "dpad_up", "dpad_down",
                    "button_l1", "button_r1"}
  /\ eventType = "dpad_left" => pageNum > 1
  /\ eventType = "dpad_right" => pageNum + pagesPerView <= pageCount
  /\ pageNum' =
       CASE eventType = "dpad_left" -> Max(1, pageNum - pagesPerView)
         [] eventType = "dpad_right" -> pageNum + pagesPerView
         [] eventType = "dpad_up" -> 1
         [] eventType = "dpad_down" -> Max(1, pageCount - pagesPerView + 1)
         [] eventType = "button_l1" -> Max(1, pageNum - 5 * pagesPerView)
         [] eventType = "button_r1" ->
              Min(pageCount - pagesPerView + 1, pageNum + 5 * pagesPerView)
  /\ UNCHANGED <<pdfDoc, pageCount, pagesPerView, lastRendered>>
  /\ queueRenderPages(pageNum')

Digits == <<"0", "1", "2", "3", "4", "5", "6", "7", "8", "9">>

IsDigit(char) == \E d \in DOMAIN Digits : Digits[d] = char

DigitValue(char) == (CHOOSE d \in DOMAIN Digits : Digits[d] = char) - 1

RECURSIVE LeadingDigits(_, _)
LeadingDigits(chars, value) ==
  IF chars = <<>> \/ ~IsDigit(Head(chars)) THEN value
  ELSE LeadingDigits(Tail(chars), 10 * value + DigitValue(Head(chars)))

\* parseInt of the input's text: <<>> is NaN, <<n>> the integer the leading
\* sign and digits spell.
parseInt(chars) ==
  LET negative == chars # <<>> /\ Head(chars) = "-"
      unsigned == IF chars # <<>> /\ Head(chars) \in {"-", "+"} THEN Tail(chars) ELSE chars
  IN IF unsigned = <<>> \/ ~IsDigit(Head(unsigned)) THEN <<>>
     ELSE IF negative THEN <<0 - LeadingDigits(unsigned, 0)>>
     ELSE <<LeadingDigits(unsigned, 0)>>

\* What the user types into the page field.
PageInputs ==
  {<<"0">>, <<"1">>, <<"3">>, <<"7">>, <<"8">>, <<"1", "0">>, <<"-", "1">>, <<>>}

goToPage(value) ==
  /\ pdfDoc
  /\ UNCHANGED <<pdfDoc, pageCount, pagesPerView, lastRendered>>
  /\ \E targetPage \in {parseInt(value)} :
       IF targetPage # <<>> /\ targetPage[1] >= 1 /\ targetPage[1] <= pageCount
       THEN /\ pageNum' = targetPage[1]
            /\ queueRenderPages(pageNum')
       ELSE UNCHANGED <<pageNum, pageRendering, pageNumPending, rendering>>

(***************************************************************************)
(* PdfViewer.svelte, the single-page viewer: its render queue.             *)
(***************************************************************************)
\* renderPage up to its first await.
renderPage(num) ==
  IF pdfDoc'
  THEN /\ pageRendering' = TRUE
       /\ rendering' = Append(rendering, num)
  ELSE UNCHANGED <<pageRendering, rendering>>

queueRenderPage(num) ==
  IF pageRendering
  THEN /\ pageNumPending' = <<num>>
       /\ UNCHANGED <<pageRendering, rendering>>
  ELSE /\ renderPage(num)
       /\ UNCHANGED pageNumPending

\* loadPdf from the point where getDocument has resolved: the first page is
\* rendered by renderPage itself, not through the queue.
viewerLoadPdf(numPages) ==
  /\ Len(rendering) < MaxRenders
  /\ pdfDoc' = TRUE
  /\ pageCount' = numPages
  /\ pageNum' = 1
  /\ renderPage(1)
  /\ UNCHANGED <<pagesPerView, pageNumPending, lastRendered>>

viewerPrevPage ==
  /\ pdfDoc
  /\ pageNum > 1
  /\ pageNum' = pageNum - 1
  /\ UNCHANGED <<pdfDoc, pageCount, pagesPerView, lastRendered>>
  /\ queueRenderPage(pageNum')

viewerNextPage ==
  /\ pageNum < pageCount
  /\ pageNum' = pageNum + 1
  /\ UNCHANGED <<pdfDoc, pageCount, pagesPerView, lastRendered>>
  /\ queueRenderPage(pageNum')

\* renderPage after page.render has resolved: the try block's end.
renderPageResolved ==
  /\ rendering # <<>>
  /\ \E i \in DOMAIN rendering :
       /\ lastRendered' = <<rendering[i]>>
       /\ IF pageNumPending # <<>>
          THEN /\ pageRendering' = TRUE
               /\ rendering' = Append(RemoveAt(rendering, i), pageNumPending[1])
               /\ pageNumPending' = <<>>
          ELSE /\ pageRendering' = FALSE
               /\ rendering' = RemoveAt(rendering, i)
               /\ UNCHANGED pageNumPending
  /\ UNCHANGED <<pdfDoc, pageNum, pageCount, pagesPerView>>

\* renderPage after getPage or page.render has rejected: the catch block.
renderPageRejected ==
  /\ rendering # <<>>
  /\ \E i \in DOMAIN rendering :
       /\ lastRendered' = <<rendering[i]>>
       /\ rendering' = RemoveAt(rendering, i)
  /\ pageRendering' = FALSE
  /\ UNCHANGED <<pdfDoc, pageNum, pageCount, pagesPerView, pageNumPending>>

(***************************************************************************)
(* ControllerService.ts and the components that register callbacks on the  *)
(* singleton service.                                                      *)
(***************************************************************************)
MaxMounts == 4

eventTypes ==
  {"dpad_up", "dpad_down", "dpad_left", "dpad_right",
   "button_a", "button_b", "button_x", "button_y",
   "button_l1", "button_r1", "button_l2", "button_r2",
   "button_select", "button_start", "button_plus", "button_minus"}

\* createKeyToEventMap over controllerMapping: every key of a property maps
\* to the property's name with "_" before each capital, in lower case.
keyToEventMap ==
  [key \in {"c", "ArrowUp", "d", "ArrowDown", "e", "ArrowLeft", "f", "ArrowRight",
            "g", "Escape", "j", "Enter", "h", "Backspace", "i", " ", "k", "q",
            "m", "w", "l", "r", "Tab", "z", "n", "-", "o", "+"} |->
     CASE key \in {"c", "ArrowUp"} -> "dpad_up"
       [] key \in {"d", "ArrowDown"} -> "dpad_down"
       [] key \in {"e", "ArrowLeft"} -> "dpad_left"
       [] key \in {"f", "ArrowRight"} -> "dpad_right"
       [] key \in {"g", "Escape"} -> "button_a"
       [] key \in {"j", "Enter"} -> "button_b"
       [] key \in {"h", "Backspace"} -> "button_x"
       [] key \in {"i", " "} -> "button_y"
       [] key \in {"k", "q"} -> "button_l1"
       [] key \in {"m", "w"} -> "button_r1"
       [] key = "l" -> "button_l2"
       [] key = "r" -> "button_r2"
       [] key = "Tab" -> "button_select"
       [] key = "z" -> "button_start"
       [] key \in {"n", "-"} -> "button_minus"
       [] key \in {"o", "+"} -> "button_plus"]

\* The keys the model presses: two mapped keys and one that is not mapped.
PressedKeys == {"g", "e", "x"}

Components == {"PdfStream", "PdfViewer", "PdfSelector"}

\* The event types a component's setupControllerEvents registers on, in order.
Registers(component) ==
  CASE component = "PdfStream" -> <<"button_a">>
    [] component = "PdfViewer" ->
         <<"dpad_left", "dpad_right", "dpad_up", "dpad_down", "button_plus",
           "button_minus", "button_b", "button_l1", "button_r1">>
    [] component = "PdfSelector" ->
         <<"dpad_up", "dpad_down", "dpad_left", "dpad_right", "button_b", "button_a">>

\* The event types a component's cleanup calls removeEventListener on.
Unregisters(component) ==
  CASE component = "PdfStream" -> <<"button_a">>
    [] component = "PdfViewer" ->
         <<"dpad_up", "dpad_down", "dpad_left", "dpad_right", "button_a",
           "button_b", "button_plus", "button_minus", "button_l1", "button_r1">>
    [] component = "PdfSelector" ->
         <<"dpad_up", "dpad_down", "dpad_left", "dpad_right", "button_b", "button_a">>

\* A callback is a function object: the closure a component instance made.
Callback(component, instance) == [component |-> component, instance |-> instance]

\* The `() => {}` a cleanup writes in place: a new function object, which no
\* list holds.
NewArrowFunction == Callback("cleanup", 0)

\* What a component's cleanup hands to removeEventListener: PdfSelector
\* passes the handler it registered, PdfStream and PdfViewer a new `() => {}`.
CleanupArgument(component, instance) ==
  IF component = "PdfSelector" THEN Callback(component, instance)
  ELSE NewArrowFunction

indexOf(callbacks, callback) ==
  IF \E i \in DOMAIN callbacks : callbacks[i] = callback
  THEN CHOOSE i \in DOMAIN callbacks :
         /\ callbacks[i] = callback
         /\ \A j \in 1..(i - 1) : callbacks[j] # callback
  ELSE 0

splice(callbacks, index) ==
  [i \in 1..(Len(callbacks) - 1) |->
     IF i < index THEN callbacks[i] ELSE callbacks[i + 1]]

removeEventListener(map, eventType, callback) ==
  LET callbacks == map[eventType]
      index == indexOf(callbacks, callback)
  IN IF index # 0 THEN [map EXCEPT ![eventType] = splice(callbacks, index)]
     ELSE map

addEventListener(map, eventType, callback) ==
  [map EXCEPT ![eventType] = Append(map[eventType], callback)]

RECURSIVE AddAll(_, _, _)
AddAll(map, types, callback) ==
  IF types = <<>> THEN map
  ELSE AddAll(addEventListener(map, Head(types), callback), Tail(types), callback)

RECURSIVE RemoveAll(_, _, _)
RemoveAll(map, types, callback) ==
  IF types = <<>> THEN map
  ELSE RemoveAll(removeEventListener(map, Head(types), callback), Tail(types), callback)

\* bind() returns a new function on every call: the one startKeyboardListener
\* attaches and the one stopKeyboardListener asks window to remove.
BoundAtStart == "handleKeyDown.bind#1"
BoundAtStop == "handleKeyDown.bind#2"

\* The constructor: an empty list per event type, then startKeyboardListener.
ControllerInit ==
  /\ listeners = [type \in eventTypes |-> <<>>]
  /\ isRunning = TRUE
  /\ keydownHandlers = {BoundAtStart}
  /\ activeKeys = {}
  /\ mounted = {}
  /\ mounts = 0
  /\ invoked = {}

\* onMount of a component: setupControllerEvents.
mount(component) ==
  /\ mounts < MaxMounts
  /\ \A m \in mounted : m.component # component
  /\ mounts' = mounts + 1
  /\ mounted' = mounted \cup {Callback(component, mounts + 1)}
  /\ listeners' = AddAll(listeners, Registers(component), Callback(component, mounts + 1))
  /\ invoked' = {}
  /\ UNCHANGED <<isRunning, keydownHandlers, activeKeys>>

\* onDestroy of a component: its cleanup of controller events.
unmount(m) ==
  /\ m \in mounted
  /\ mounted' = mounted \ {m}
  /\ listeners' = RemoveAll(listeners, Unregisters(m.component),
                            CleanupArgument(m.component, m.instance))
  /\ invoked' = {}
  /\ UNCHANGED <<isRunning, keydownHandlers, activeKeys, mounts>>

\* ControllerService.destroy: stopKeyboardListener.
destroy ==
  /\ isRunning
  /\ keydownHandlers' = keydownHandlers \ {BoundAtStop}
  /\ isRunning' = FALSE
  /\ invoked' = {}
  /\ UNCHANGED <<listeners, activeKeys, mounted, mounts>>

\* A keydown on window, outside an input field: every attached handler runs
\* handleKeyDown, which triggers the event of a mapped key that is not held.
handleKeyDown(key) ==
  /\ keydownHandlers # {}
  /\ IF key \in DOMAIN keyToEventMap /\ key \notin activeKeys
     THEN /\ activeKeys' = activeKeys \cup {key}
          /\ invoked' = Range(listeners[keyToEventMap[key]])
     ELSE /\ invoked' = {}
          /\ UNCHANGED activeKeys
  /\ UNCHANGED <<listeners, isRunning, keydownHandlers, mounted, mounts>>

handleKeyUp(key) ==
  /\ key \in activeKeys
  /\ activeKeys' = activeKeys \ {key}
  /\ invoked' = {}
  /\ UNCHANGED <<listeners, isRunning, keydownHandlers, mounted, mounts>>

(***************************************************************************)
(* App.svelte: the note registry and the recompute pass.                   *)
(***************************************************************************)
VARIABLES
  activeNotes,        \* App: Map id -> NoteData, the registry
  serviceActiveNotes, \* MusicTheoryService.activeNotes
  allPlayedNotes,     \* MusicTheoryService.allPlayedNotes, the history
  cachedKey,          \* MusicTheoryService.currentKey
  scaleMatches,       \* detectKey's scaleMatches: what Scale.detect reported last
  currentKey,         \* App.currentKey, the published key
  intervals,          \* App.intervals, the published intervals
  chords,             \* App.chords, the published chords
  now,                \* Date.now()
  lastEvent           \* the handler that ran last, and whether it ran a pass

appVars == <<activeNotes, serviceActiveNotes, allPlayedNotes, cachedKey, scaleMatches,
             currentKey, intervals, chords, now, lastEvent>>

vars == <<appVars, componentVars>>

fadeDuration == 3000

\* The clock advances by a step that outlasts the fade.
ClockStep == fadeDuration + 1

Event(type, pass) == [type |-> type, pass |-> pass]

Ids(map) == {map[i].id : i \in DOMAIN map}
IndexOf(map, id) == CHOOSE i \in DOMAIN map : map[i].id = id

\* Faulty variant: every set adds an entry.
MapSetAppend(map, note) == Append(map, note)

\* Map.set: a present key keeps its place, a new key goes last.
MapSet(map, note) ==
  IF note.id \in Ids(map)
  THEN [map EXCEPT ![IndexOf(map, note.id)] = note]
  ELSE Append(map, note)

\* Faulty variant: the history is rebuilt from the notes of the registry.
updateNotesArrayRebuild(map) ==
  \E played \in {addAllToCollection(<<>>, map)} :
  \E matches \in {MatchesAfterDetect(scaleMatches, played)} :
  \E detected \in {detectKey(played)} :
  \E key \in {KeyAfterDetect(cachedKey, detected)} :
     /\ serviceActiveNotes' = map
     /\ allPlayedNotes' = played
     /\ scaleMatches' = matches
     /\ currentKey' = detected
     /\ cachedKey' = key
     /\ activeNotes' = processNotes(key, map)
     /\ intervals' = detectIntervals(map)
     /\ chords' = detectChords(key, map)

\* updateNotesArray, run on the registry as the handler left it. (A value
\* bound by \E over a singleton is computed once.)
\* updateNotesArray's statements, run on the registry map with the engine
\* holding the history and the cached key given.
recompute(history, cached, map) ==
  \E played \in {addAllToCollection(history, map)} :
  \E matches \in {MatchesAfterDetect(scaleMatches, played)} :
  \E detected \in {detectKey(played)} :
  \E key \in {KeyAfterDetect(cached, detected)} :
     /\ serviceActiveNotes' = map
     /\ allPlayedNotes' = played
     /\ scaleMatches' = matches
     /\ currentKey' = detected
     /\ cachedKey' = key
     /\ activeNotes' = processNotes(key, map)
     /\ intervals' = detectIntervals(map)
     /\ chords' = detectChords(key, map)

updateNotesArray(map) == recompute(allPlayedNotes, cachedKey, map)

NoteData(number, velocity) ==
  [id |-> number, name |-> NoteNameOf(number), midiNumber |-> number,
   velocity |-> velocity, timestamp |-> now, inKey |-> TRUE, active |-> TRUE]

\* The guard that keeps the model finite: the registry and the history a
\* NoteOn would leave stay within the bounds.
WithinBounds(map) ==
  /\ Len(map) <= MaxNotes
  /\ Len(addAllToCollection(allPlayedNotes, map)) <= MaxHistory

\* PianoSimulator.svelte noteOn: the velocity of every virtual key.
simulatorVelocity == 75

\* handleSimulatorNoteOn
handleSimulatorNoteOn(number) ==
  \E map \in {MapSet(activeNotes, NoteData(number, simulatorVelocity))} :
     /\ WithinBounds(map)
     /\ updateNotesArray(map)
     /\ lastEvent' = Event("noteon", TRUE)
     /\ UNCHANGED now

\* The noteon listener of setupMidiInput.
noteonListener(number, velocity) ==
  \E map \in {MapSet(activeNotes, NoteData(number, velocity))} :
     /\ WithinBounds(map)
     /\ updateNotesArray(map)
     /\ lastEvent' = Event("noteon", TRUE)
     /\ UNCHANGED now

\* Faulty variant: a NoteOff deletes the entry at once.
handleNoteOffDeletes(number) ==
  IF number \in Ids(activeNotes)
  THEN /\ updateNotesArray(SelectSeq(activeNotes, LAMBDA note : note.id # number))
       /\ lastEvent' = Event("noteoff", TRUE)
       /\ UNCHANGED now
  ELSE /\ lastEvent' = Event("noteoff", FALSE)
       /\ UNCHANGED <<activeNotes, serviceActiveNotes, allPlayedNotes, cachedKey,
                      scaleMatches, currentKey, intervals, chords, now>>

\* Faulty variant: a NoteOff runs the pass whether or not it found its pitch.
handleNoteOffAlwaysUpdates(number) ==
  \E map \in {[i \in DOMAIN activeNotes |->
                IF activeNotes[i].id = number
                THEN [activeNotes[i] EXCEPT !.timestamp = now, !.active = FALSE]
                ELSE activeNotes[i]]} :
     /\ updateNotesArray(map)
     /\ lastEvent' = Event("noteoff", number \in Ids(activeNotes))
     /\ UNCHANGED now

\* handleSimulatorNoteOff, and the noteoff listener of setupMidiInput.
handleSimulatorNoteOff(number) ==
  IF number \in Ids(activeNotes)
  THEN \E i \in {IndexOf(activeNotes, number)} :
       \E map \in {[activeNotes EXCEPT ![i].timestamp = now, ![i].active = FALSE]} :
          /\ updateNotesArray(map)
          /\ lastEvent' = Event("noteoff", TRUE)
          /\ UNCHANGED now
  ELSE /\ lastEvent' = Event("noteoff", FALSE)
       /\ UNCHANGED <<activeNotes, serviceActiveNotes, allPlayedNotes, cachedKey,
                      scaleMatches, currentKey, intervals, chords, now>>

\* The test updateFadingNotes makes of one entry.
Expired(note) == now - note.timestamp > fadeDuration

\* Faulty variant: the frame deletes the faded entries and runs no pass.
updateFadingNotesWithoutPass ==
  /\ activeNotes' = SelectSeq(activeNotes, LAMBDA note : ~Expired(note))
  /\ lastEvent' = Event("tick", FALSE)
  /\ UNCHANGED <<serviceActiveNotes, allPlayedNotes, cachedKey, scaleMatches, currentKey,
                 intervals, chords, now>>

\* Faulty variant: every frame runs the pass.
updateFadingNotesAlwaysPasses ==
  \E map \in {SelectSeq(activeNotes, LAMBDA note : ~Expired(note))} :
     /\ updateNotesArray(map)
     /\ lastEvent' = Event("tick", TRUE)
     /\ UNCHANGED now

\* updateFadingNotes: one animation frame.
updateFadingNotes ==
  \E map \in {SelectSeq(activeNotes, LAMBDA note : ~Expired(note))} :
     IF map # activeNotes   \* notesChanged
     THEN /\ updateNotesArray(map)
          /\ lastEvent' = Event("tick", TRUE)
          /\ UNCHANGED now
     ELSE /\ lastEvent' = Event("tick", FALSE)
          /\ UNCHANGED <<activeNotes, serviceActiveNotes, allPlayedNotes, cachedKey,
                         scaleMatches, currentKey, intervals, chords, now>>

\* Faulty variant: the reset clears the history and keeps the key.
resetKeepsKey ==
  /\ allPlayedNotes' = <<>>
  /\ lastEvent' = Event("reset", FALSE)
  /\ UNCHANGED <<activeNotes, serviceActiveNotes, cachedKey, scaleMatches, currentKey,
                 intervals, chords, now>>

\* resetNoteCollection, as MusicAnalysis.svelte's reset button calls it.
resetNoteCollection ==
  /\ allPlayedNotes' = <<>>
  /\ cachedKey' = NoKey
  /\ lastEvent' = Event("reset", FALSE)
  /\ UNCHANGED <<activeNotes, serviceActiveNotes, scaleMatches, currentKey, intervals,
                 chords, now>>

\* resetKeyDetection when its keyReset event reaches App: resetNoteCollection,
\* then handleKeyReset, which clears the published key and runs the pass.
resetKeyDetection ==
  /\ recompute(<<>>, NoKey, activeNotes)
  /\ lastEvent' = Event("keyreset", TRUE)
  /\ UNCHANGED now

\* Time passes between two handlers.
Advance ==
  /\ now + ClockStep <= MaxTime
  /\ now' = now + ClockStep
  /\ UNCHANGED <<activeNotes, serviceActiveNotes, allPlayedNotes, cachedKey,
                 scaleMatches, currentKey, intervals, chords, lastEvent>>

Init ==
  /\ activeNotes = <<>>
  /\ serviceActiveNotes = <<>>
  /\ allPlayedNotes = <<>>
  /\ cachedKey = NoKey
  /\ scaleMatches = <<>>
  /\ currentKey = NoKey
  /\ intervals = <<>>
  /\ chords = <<>>
  /\ now = 0
  /\ lastEvent = Event("mount", FALSE)
  /\ SynthInit
  /\ PdfInit
  /\ ControllerInit

Next ==
  \/ \E number \in Pitches :
        handleSimulatorNoteOn(number) /\ UNCHANGED componentVars
  \/ \E number \in MidiPitches, velocity \in MidiVelocities :
        noteonListener(number, velocity) /\ UNCHANGED componentVars
  \/ \E number \in Pitches :
        handleSimulatorNoteOff(number) /\ UNCHANGED componentVars
  \/ updateFadingNotes /\ UNCHANGED componentVars
  \/ resetNoteCollection /\ UNCHANGED componentVars
  \/ Advance /\ UNCHANGED componentVars

Spec == Init /\ [][Next]_vars

\* The app with both outcomes of the reset button: MusicAnalysis.svelte raises
\* keyReset with the global dispatchEvent, and whether App's on:keyReset
\* handler sees it is left open.
ResetNext ==
  \/ Next
  \/ resetKeyDetection /\ UNCHANGED componentVars

ResetSpec == Init /\ [][ResetNext]_vars

(***************************************************************************)
(* The key estimator on its own: the engine is handed one pitch class      *)
(* after the other (addNoteToCollection) and asked for the key (detectKey) *)
(* after each, over all twelve names of the keyboard in any order.         *)
(***************************************************************************)
observeAndDetect(pc) ==
  /\ Len(allPlayedNotes) < MaxObserved
  /\ \E played \in {addNoteToCollection(allPlayedNotes, <<pc, 4>>)} :
     \E matches \in {MatchesAfterDetect(scaleMatches, played)} :
     \E detected \in {detectKey(played)} :
        /\ allPlayedNotes' = played
        /\ scaleMatches' = matches
        /\ currentKey' = detected
        /\ cachedKey' = KeyAfterDetect(cachedKey, detected)
  /\ lastEvent' = Event("detect", TRUE)
  /\ UNCHANGED <<activeNotes, serviceActiveNotes, intervals, chords, now>>

KeyNext ==
  \/ \E i \in DOMAIN noteMap :
        observeAndDetect(noteMap[i]) /\ UNCHANGED componentVars
  \/ resetNoteCollection /\ UNCHANGED componentVars

KeySpec == Init /\ [][KeyNext]_vars

\* ---------------------------------------------------------------------------
\* The engine's ranking with the scale detector's report order left open.
\* Scale.detect is library code: detectKey receives its names in whatever
\* order the library reports them.

\* Every order in which the names of a report can arrive.
Reorderings(names) ==
  {order \in [DOMAIN names -> Range(names)] :
     \A i, j \in DOMAIN names : order[i] = order[j] => i = j}

\* addNoteToCollection followed by detectKey, the detector reporting the
\* scales of the history in some order.
observeAndRank(pc) ==
  /\ Len(allPlayedNotes) < MaxObserved
  /\ \E played \in {addNoteToCollection(allPlayedNotes, <<pc, 4>>)} :
     \E matches \in (IF Len(played) < 3 THEN {scaleMatches}
                     ELSE Reorderings(ScaleDetect(played))) :
     \E detected \in {IF Len(played) < 3 THEN NoKey ELSE detectKeyFrom(matches, played)} :
        /\ allPlayedNotes' = played
        /\ scaleMatches' = matches
        /\ currentKey' = detected
        /\ cachedKey' = KeyAfterDetect(cachedKey, detected)
  /\ lastEvent' = Event("rank", TRUE)
  /\ UNCHANGED <<activeNotes, serviceActiveNotes, intervals, chords, now>>

RankNext ==
  \/ \E i \in DOMAIN noteMap :
        observeAndRank(noteMap[i]) /\ UNCHANGED componentVars
  \/ resetNoteCollection /\ UNCHANGED componentVars

RankSpec == Init /\ [][RankNext]_vars

\* ---------------------------------------------------------------------------
\* Key detection while the white keys are observed one by one, in any order
\* and in two octaves.
WhiteKeys == {"C", "D", "E", "F", "G", "A", "B"}
ScenarioOctaves == {3, 4}

observeWhiteKey(pc, octave) ==
  /\ pc \notin Range(allPlayedNotes)
  /\ \E played \in {addNoteToCollection(allPlayedNotes, <<pc, octave>>)} :
     \E detected \in {detectKey(played)} :
        /\ allPlayedNotes' = played
        /\ scaleMatches' = MatchesAfterDetect(scaleMatches, played)
        /\ currentKey' = detected
        /\ cachedKey' = KeyAfterDetect(cachedKey, detected)
  /\ lastEvent' = Event("detect", TRUE)
  /\ UNCHANGED <<activeNotes, serviceActiveNotes, intervals, chords, now>>

ScenarioNext ==
  \/ \E pc \in WhiteKeys, octave \in ScenarioOctaves :
        observeWhiteKey(pc, octave) /\ UNCHANGED componentVars
  \/ resetNoteCollection /\ UNCHANGED componentVars

ScenarioSpec == Init /\ [][ScenarioNext]_vars

\* ---------------------------------------------------------------------------
\* The engine's operations on notes of which one has an unparseable name.
\* The notes: C4, E4, G4 and a note whose name Note.get cannot parse.
NamedNotes ==
  {NoteData(60, simulatorVelocity), NoteData(64, simulatorVelocity),
   NoteData(67, simulatorVelocity),
   [NoteData(0, simulatorVelocity) EXCEPT !.name = Malformed]}

\* The lists of up to MaxNotes of them, in any order.
NamedLists ==
  {list \in UNION {[1..n -> NamedNotes] : n \in 1..MaxNotes} :
     \A i, j \in DOMAIN list : list[i] = list[j] => i = j}

\* setActiveNotes, detectKey, processNotes, detectIntervals and detectChords
\* on one list, as a pass calls them.
analyseNamed(list) ==
  /\ updateNotesArray(list)
  /\ lastEvent' = Event("engine", TRUE)
  /\ UNCHANGED now

NamedNext ==
  \/ \E list \in NamedLists : analyseNamed(list) /\ UNCHANGED componentVars
  \/ resetNoteCollection /\ UNCHANGED componentVars

NamedSpec == Init /\ [][NamedNext]_vars

\* ---------------------------------------------------------------------------
\* The legacy KeyDetectionService, called with lists of notes.

\* KeyDetectionService.detectKey(notes): the value it returns.
KeyDetectionService_detectKey(notes) ==
  IF Len(notes) < 3 THEN NoKey
  ELSE LET noteNames == [i \in DOMAIN notes |-> NotePc(notes[i].name)]
       IN detectKeyFrom(ScaleDetect(noteNames), noteNames)

\* The notes the lists are made of: C3, C4, C5, E4 and G4.
LegacyNotes == {NoteData(number, simulatorVelocity) : number \in {48, 60, 72, 64, 67}}

\* The lists of up to MaxNotes of them, in any order.
LegacyLists ==
  {list \in UNION {[1..n -> LegacyNotes] : n \in 1..MaxNotes} :
     \A i, j \in DOMAIN list : list[i] = list[j] => i = j}

\* One call of KeyDetectionService.detectKey: serviceActiveNotes holds the
\* argument, currentKey the value returned, cachedKey the service's
\* currentKey field.
legacyDetectKey(notes) ==
  /\ \E detected \in {KeyDetectionService_detectKey(notes)} :
        /\ currentKey' = detected
        /\ cachedKey' = KeyAfterDetect(cachedKey, detected)
  /\ serviceActiveNotes' = notes
  /\ lastEvent' = Event("legacy", TRUE)
  /\ UNCHANGED <<activeNotes, allPlayedNotes, scaleMatches, intervals, chords, now>>

LegacyNext ==
  \E notes \in LegacyLists : legacyDetectKey(notes) /\ UNCHANGED componentVars

LegacySpec == Init /\ [][LegacyNext]_vars

\* ---------------------------------------------------------------------------
\* The recompute pass over registries of held notes that form chords: the
\* white keys C4 to B4 without A4, and G#4.
EnginePitches == {60, 62, 64, 65, 67, 68, 71}

\* The registries: up to MaxNotes keys, pressed from the lowest up.
EngineRegistries ==
  {map \in UNION {[1..n -> EnginePitches] : n \in 1..MaxNotes} :
     \A i, j \in DOMAIN map : i < j => map[i] < map[j]}

\* updateNotesArray with the registry holding the keys of numbers, all held.
analyse(numbers) ==
  /\ \E map \in {[i \in DOMAIN numbers |-> NoteData(numbers[i], simulatorVelocity)]} :
        /\ WithinBounds(map)
        /\ updateNotesArray(map)
  /\ lastEvent' = Event("analyse", TRUE)
  /\ UNCHANGED now

EngineNext ==
  \/ \E numbers \in EngineRegistries : analyse(numbers) /\ UNCHANGED componentVars
  \/ resetNoteCollection /\ UNCHANGED componentVars

EngineSpec == Init /\ [][EngineNext]_vars

(***************************************************************************)
(* The components on their own: each runs beside an idle analysis core.    *)
(***************************************************************************)
SynthNext ==
  \/ \E note \in SynthNotes :
       noteOn(note) /\ UNCHANGED <<appVars, pdfVars, controllerVars>>
  \/ \E note \in SynthNotes :
       noteOff(note) /\ UNCHANGED <<appVars, pdfVars, controllerVars>>
  \/ cleanup /\ UNCHANGED <<appVars, pdfVars, controllerVars>>

SynthSpec == Init /\ [][SynthNext]_vars

PdfNext ==
  \/ \E numPages \in PageCounts :
       loadPdf(numPages) /\ UNCHANGED <<appVars, synthVars, controllerVars>>
  \/ renderPagesEnd /\ UNCHANGED <<appVars, synthVars, controllerVars>>
  \/ \E value \in 1..4 :
       updatePagesPerView(value) /\ UNCHANGED <<appVars, synthVars, controllerVars>>
  \/ prevPage /\ UNCHANGED <<appVars, synthVars, controllerVars>>
  \/ nextPage /\ UNCHANGED <<appVars, synthVars, controllerVars>>
  \/ \E eventType \in eventTypes :
       controllerEvent(eventType) /\ UNCHANGED <<appVars, synthVars, controllerVars>>
  \/ \E value \in PageInputs :
       goToPage(value) /\ UNCHANGED <<appVars, synthVars, controllerVars>>

PdfSpec == Init /\ [][PdfNext]_vars

ViewerNext ==
  \/ \E numPages \in PageCounts :
       viewerLoadPdf(numPages) /\ UNCHANGED <<appVars, synthVars, controllerVars>>
  \/ viewerPrevPage /\ UNCHANGED <<appVars, synthVars, controllerVars>>
  \/ viewerNextPage /\ UNCHANGED <<appVars, synthVars, controllerVars>>
  \/ renderPageResolved /\ UNCHANGED <<appVars, synthVars, controllerVars>>
  \/ renderPageRejected /\ UNCHANGED <<appVars, synthVars, controllerVars>>

ViewerSpec == Init /\ [][ViewerNext]_vars

ControllerNext ==
  \/ \E component \in Components :
       mount(component) /\ UNCHANGED <<appVars, synthVars, pdfVars>>
  \/ \E m \in mounted :
       unmount(m) /\ UNCHANGED <<appVars, synthVars, pdfVars>>
  \/ destroy /\ UNCHANGED <<appVars, synthVars, pdfVars>>
  \/ \E key \in PressedKeys :
       handleKeyDown(key) /\ UNCHANGED <<appVars, synthVars, pdfVars>>
  \/ \E key \in PressedKeys :
       handleKeyUp(key) /\ UNCHANGED <<appVars, synthVars, pdfVars>>

ControllerSpec == Init /\ [][ControllerNext]_vars


(***************************************************************************)
(* Properties.                                                             *)
(***************************************************************************)
Pcs(notes) == {NotePc(notes[i].name) : i \in DOMAIN notes}
IdsInOrder(map) == [i \in DOMAIN map |-> map[i].id]
\* The steps of the handlers, told by lastEvent first and by the handler's
\* own definition then.
NoteOnStep(number, velocity) ==
  /\ lastEvent'.type = "noteon"
  /\ \/ velocity = simulatorVelocity /\ handleSimulatorNoteOn(number)
     \/ velocity \in MidiVelocities /\ number \in MidiPitches
           /\ noteonListener(number, velocity)
NoteOffStep(number) == lastEvent'.type = "noteoff" /\ handleSimulatorNoteOff(number)
TickStep == lastEvent'.type = "tick" /\ updateFadingNotes
ResetStep == lastEvent'.type = "reset" /\ resetNoteCollection
\* A tick that removes notes, all of them released.
FadedRemoved ==
  /\ TickStep
  /\ activeNotes' # activeNotes
  /\ \A i \in DOMAIN activeNotes :
        activeNotes[i].id \notin Ids(activeNotes') => ~activeNotes[i].active

\* C1: after every step the registry holds at most one entry per MIDI pitch
\* number, and a NoteOn for a pitch that is in the registry leaves the
\* entries where they were and makes that one active, with the velocity of
\* the event and the time of the event.
C1_OneEntryPerPitch ==
  [][ /\ \A i, j \in DOMAIN activeNotes' :
           activeNotes'[i].midiNumber = activeNotes'[j].midiNumber => i = j
      /\ \A number \in Pitches, velocity \in MidiVelocities \cup {simulatorVelocity} :
           (number \in Ids(activeNotes) /\ NoteOnStep(number, velocity)) =>
              /\ IdsInOrder(activeNotes') = IdsInOrder(activeNotes)
              /\ LET note == activeNotes'[IndexOf(activeNotes, number)]
                 IN /\ note.active
                    /\ note.velocity = velocity
                    /\ note.timestamp = now
                    /\ note.midiNumber = number ]_vars

\* A registry whose first entry was refreshed after the second was added.
C1_Witness ==
  /\ Len(activeNotes) >= 2
  /\ lastEvent.type = "noteon"
  /\ activeNotes[1].active
  /\ activeNotes[1].timestamp > activeNotes[2].timestamp
  /\ activeNotes[1].velocity # simulatorVelocity

\* C2, as stated: no step other than a reset takes a pitch class out of the
\* history, and a tick that removes notes leaves the history as it was.
C2_HistoryUnchangedByRemoval ==
  [][ /\ ~ResetStep => Range(allPlayedNotes) \subseteq Range(allPlayedNotes')
      /\ FadedRemoved => allPlayedNotes' = allPlayedNotes ]_vars

\* C2, amended: no step other than a reset takes a pitch class out of the
\* history or moves one; a tick that removes notes keeps the pitch classes
\* of the notes it removes, and adds those of the entries it keeps that the
\* history does not hold.
C2_HistoryGrows ==
  [][ /\ ~ResetStep =>
            /\ Len(allPlayedNotes) <= Len(allPlayedNotes')
            /\ SubSeq(allPlayedNotes', 1, Len(allPlayedNotes)) = allPlayedNotes
      /\ (TickStep /\ activeNotes' # activeNotes) =>
            Range(allPlayedNotes') = Range(allPlayedNotes) \cup Pcs(activeNotes') ]_vars

\* A tick has removed a note whose pitch class the history still holds, and
\* has left a released note in the registry.
C2_Witness ==
  /\ lastEvent = Event("tick", TRUE)
  /\ Range(allPlayedNotes) \ Pcs(activeNotes) # {}
  /\ \E i \in DOMAIN activeNotes : ~activeNotes[i].active

\* C3: after a recompute pass the cached key is the value detectKey returned
\* in the pass, and when that value is null every note is tagged in key and
\* no chord has a Roman numeral.
C3_CachedKeyIsReturnedKey ==
  lastEvent.pass =>
    /\ cachedKey = currentKey
    /\ currentKey = NoKey =>
         /\ \A i \in DOMAIN activeNotes : activeNotes[i].inKey
         /\ \A i \in DOMAIN chords : chords[i].romanNumeral = NoNumeral

\* C4: an entry the tick removes has had its NoteOff and was released longer
\* ago than the fade lasts.
C4_TickRemovesOnlyFaded ==
  [][ TickStep =>
        \A i \in DOMAIN activeNotes :
           activeNotes[i].id \notin Ids(activeNotes') =>
              /\ ~activeNotes[i].active
              /\ now - activeNotes[i].timestamp > fadeDuration ]_vars

\* C5: a NoteOff for a pitch in the registry makes its entry inactive, stamps
\* it with the release time and leaves the registry's pitches as they were.
C5_NoteOffKeepsEntry ==
  [][ \A number \in Pitches :
        (number \in Ids(activeNotes) /\ NoteOffStep(number)) =>
           /\ IdsInOrder(activeNotes') = IdsInOrder(activeNotes)
           /\ LET note == activeNotes'[IndexOf(activeNotes, number)]
              IN ~note.active /\ note.timestamp = now ]_vars

\* A released note, stamped later than it was pressed, still in the registry.
C5_Witness ==
  /\ lastEvent = Event("noteoff", TRUE)
  /\ \E i \in DOMAIN activeNotes :
        ~activeNotes[i].active /\ activeNotes[i].timestamp = now /\ now > 0

\* C6: a NoteOff for a pitch that is not in the registry runs no pass and
\* changes neither the registry nor the history nor the cached key nor what
\* is published.
C6_UnknownNoteOffIsNoOp ==
  [][ \A number \in Pitches :
        (number \notin Ids(activeNotes) /\ NoteOffStep(number)) =>
           /\ ~lastEvent'.pass
           /\ UNCHANGED <<activeNotes, serviceActiveNotes, allPlayedNotes,
                          cachedKey, scaleMatches, currentKey, intervals, chords>> ]_vars

\* A NoteOff found no entry, in a state where a pass would have published
\* something else.
C6_Witness ==
  /\ lastEvent = Event("noteoff", FALSE)
  /\ activeNotes # <<>>
  /\ detectKey(addAllToCollection(allPlayedNotes, activeNotes)) # currentKey

\* C7: with fewer than 3 pitch classes in the history detectKey returns null.
C7_EvidenceFloor ==
  Cardinality(Range(allPlayedNotes)) < 3 =>
    /\ detectKey(allPlayedNotes) = NoKey
    /\ lastEvent.pass => currentKey = NoKey

\* Scenario D: only C and E were observed.
C7_Witness ==
  /\ allPlayedNotes = <<"C", "E">>
  /\ lastEvent.pass
  /\ currentKey = NoKey

\* C8: a reset empties the history and clears the cached key, detectKey then
\* returns null, and a second reset changes nothing.
C8_Reset ==
  [][ ResetStep =>
        /\ allPlayedNotes' = <<>>
        /\ cachedKey' = NoKey
        /\ detectKey(allPlayedNotes') = NoKey
        /\ lastEvent.type = "reset" => UNCHANGED vars ]_vars

\* A reset has cleared a history that had given a key.
C8_Witness ==
  /\ lastEvent.type = "reset"
  /\ allPlayedNotes = <<>>
  /\ cachedKey = NoKey
  /\ currentKey # NoKey

Keys == {currentKey, cachedKey, detectKey(allPlayedNotes)} \ {NoKey}

\* C9: the confidence of every key detectKey returns is above 0 and at most 1.
C9_ConfidenceBound ==
  \A key \in Keys :
     /\ 0 < key.confidence.num
     /\ key.confidence.num <= key.confidence.den

\* A key was returned with a confidence below 1.
C9_Witness ==
  /\ lastEvent.pass
  /\ currentKey # NoKey
  /\ currentKey.confidence.num < currentKey.confidence.den

\* The fraction of the history's pitch classes that are among the seven
\* pitch classes of a key's scale.
Explained(keyName) ==
  LET scale == {Chroma(note) : note \in Range(ScaleNotes(keyName))}
  IN [num |-> Cardinality({pc \in Range(allPlayedNotes) : Chroma(pc) \in scale}),
      den |-> Cardinality(Range(allPlayedNotes))]

\* C10: the key detectKey returns is a catalog candidate, its confidence is
\* the number of pitch classes of the history that are members of its scale
\* over the number of pitch classes of the history, and no candidate has a
\* higher one.
C10_ConfidenceIsExplainedFraction ==
  LET key == detectKey(allPlayedNotes)
      candidates == getCommonKeyMatches(ScaleDetect(allPlayedNotes))
  IN /\ lastEvent.pass => currentKey = key
     /\ key # NoKey =>
          /\ key.keyName \in Range(candidates)
          /\ key.confidence = Explained(key.keyName)
          /\ \A i \in DOMAIN candidates :
                ~Greater(Explained(candidates[i]), key.confidence)

\* ---------------------------------------------------------------------------
\* C11: ties in confidence.

\* The catalog candidates of a report, and their confidences, for a history.
Candidates(matches) == Range(getCommonKeyMatches(matches))

ConfidenceOf(keyName, allNotes) ==
  keysWithConfidence(<<keyName>>, allNotes)[1].confidence

\* The candidates no other candidate beats.
TopCandidates(matches, allNotes) ==
  {k \in Candidates(matches) :
     \A other \in Candidates(matches) :
        ~Greater(ConfidenceOf(other, allNotes), ConfidenceOf(k, allNotes))}

\* The member of a non-empty set of names that comes first in a list.
FirstIn(list, names) ==
  list[CHOOSE i \in DOMAIN list :
         /\ list[i] \in names
         /\ \A j \in DOMAIN list : list[j] \in names => i <= j]

Ranked == lastEvent.type = "rank" /\ currentKey # NoKey

C11_LibraryOrderIsCatalogOrder ==
  (lastEvent.type = "detect" /\ currentKey # NoKey) =>
    /\ scaleMatches = ScaleDetect(allPlayedNotes)
    /\ currentKey.keyName = FirstIn(commonKeys, TopCandidates(scaleMatches, allPlayedNotes))

\* ---------------------------------------------------------------------------
\* C12: only catalog keys are returned.

\* C12: the key detectKey returns, the cached key and the published key each
\* are null or carry one of the catalog's 24 names, and detectKey returns null
\* when none of the reported scales is in the catalog.
C12_OnlyCatalogKeys ==
  /\ \A key \in Keys : key.keyName \in CatalogNames
  /\ (/\ Len(allPlayedNotes) >= 3
      /\ Candidates(ScaleDetect(allPlayedNotes)) = {})
       => detectKey(allPlayedNotes) = NoKey
  /\ lastEvent.type = "detect" /\ Len(allPlayedNotes) >= 3 /\ Candidates(scaleMatches) = {}
       => currentKey = NoKey

\* History A#, D, F: the detector reports A# major pentatonic and A# major,
\* neither is in the catalog (which spells the key Bb major): null.
C12_Witness ==
  /\ lastEvent.type = "detect"
  /\ allPlayedNotes = <<"A#", "D", "F">>
  /\ "A# major" \in Range(scaleMatches)
  /\ currentKey = NoKey
  /\ cachedKey = NoKey

\* ---------------------------------------------------------------------------
\* C13: processNotes.

\* A note with its inKey tag blanked.
Untagged(note) == [note EXCEPT !.inKey = TRUE]

\* C13: after a pass the registry holds exactly the notes handed to
\* processNotes (the list pushed with setActiveNotes), one for one and in the
\* same order, equal in every field but inKey; with no cached key every note
\* is tagged in key.
C13_ProcessNotesKeepsNotes ==
  lastEvent.pass =>
    /\ Len(activeNotes) = Len(serviceActiveNotes)
    /\ \A i \in DOMAIN activeNotes :
          Untagged(activeNotes[i]) = Untagged(serviceActiveNotes[i])
    /\ activeNotes = processNotes(cachedKey, serviceActiveNotes)
    /\ cachedKey = NoKey => \A i \in DOMAIN activeNotes : activeNotes[i].inKey

\* A pass with a key set that tagged one of two or more notes out of key.
C13_Witness ==
  /\ lastEvent.pass
  /\ cachedKey # NoKey
  /\ Len(activeNotes) >= 2
  /\ \E i, j \in DOMAIN activeNotes : activeNotes[i].inKey /\ ~activeNotes[j].inKey
  /\ \A i \in DOMAIN activeNotes :
        Untagged(activeNotes[i]) = Untagged(serviceActiveNotes[i])

\* ---------------------------------------------------------------------------
\* C14: tagging against the key.

\* The pitches (chromas) of a key's scale notes.
KeyPitches(key) == {Chroma(key.notes[i]) : i \in DOMAIN key.notes}

\* C14: with a key set, a pass tags a note in key exactly when its pitch is
\* one of the pitches of the key's scale; a note on one of the key's seven
\* pitches is never tagged as an accidental.
C14_InKeyIffPitchInScale ==
  (lastEvent.pass /\ cachedKey # NoKey) =>
     \A i \in DOMAIN activeNotes :
        activeNotes[i].inKey <=> Chroma(NotePc(activeNotes[i].name)) \in KeyPitches(cachedKey)

\* ---------------------------------------------------------------------------
\* C15: pairwise intervals.

\* The place of the pair (i, j), i < j, in the order of the two loops over n
\* notes.
PairIndex(i, j, n) == (i - 1) * n - ((i * (i - 1)) \div 2) + (j - i)

\* C15: the published intervals are one IntervalInfo for each pair i < j of
\* the notes last pushed with setActiveNotes, n(n-1)/2 of them for n notes,
\* equal intervals included, and none for fewer than two notes.
C15_OneIntervalPerPair ==
  LET n == Len(serviceActiveNotes)
  IN /\ Len(intervals) = (n * (n - 1)) \div 2
     /\ \A i, j \in 1..n :
          i < j => intervals[PairIndex(i, j, n)].noteNames =
                     <<serviceActiveNotes[i].name, serviceActiveNotes[j].name>>
     /\ n < 2 => intervals = <<>>

\* Three notes, three intervals, two of them the same interval (A#4-B4 and
\* B4-C5 are both minor seconds).
C15_Witness ==
  /\ lastEvent.pass
  /\ Len(serviceActiveNotes) = 3
  /\ Len(intervals) = 3
  /\ \E a, b \in DOMAIN intervals :
        /\ a # b
        /\ intervals[a].name = intervals[b].name
        /\ intervals[a].semitones = intervals[b].semitones

\* ---------------------------------------------------------------------------
\* C16: intervals and chords of the held notes.

\* The notes of the registry that are still held.
Held(map) == SelectSeq(map, LAMBDA note : note.active)

\* C16: after a pass the published intervals and chords are those of the held
\* notes alone: no interval pairs a released note, and a released note's pitch
\* class is not given to the chord detector.
C16_OnlyHeldNotesAnalysed ==
  lastEvent.pass =>
    /\ \A k \in DOMAIN intervals :
          \A m \in 1..2 :
             \E i \in DOMAIN activeNotes :
                activeNotes[i].active /\ activeNotes[i].name = intervals[k].noteNames[m]
    /\ intervals = detectIntervals(Held(activeNotes))
    /\ chords = detectChords(cachedKey, Held(activeNotes))

\* ---------------------------------------------------------------------------
\* C17: interval symmetry.

\* The lower and the higher of two notes.
Lower(note1, note2) == IF Height(note1) <= Height(note2) THEN note1 ELSE note2
Higher(note1, note2) == IF Height(note1) <= Height(note2) THEN note2 ELSE note1

\* C17: whichever of its two notes comes first in the registry, a published
\* interval carries the name and the semitone count of the distance from the
\* lower note up to the higher one.
C17_IntervalSymmetry ==
  \A k \in DOMAIN intervals :
     LET note1 == intervals[k].noteNames[1]
         note2 == intervals[k].noteNames[2]
         canonical == IntervalInfo(Lower(note1, note2), Higher(note1, note2))
     IN /\ intervals[k].semitones = canonical.semitones
        /\ intervals[k].name = canonical.name

\* ---------------------------------------------------------------------------
\* C18: the chord floor.

\* C18: while the notes last pushed with setActiveNotes hold fewer than three
\* distinct pitch classes, a pitch class sounding in several octaves counted
\* once, the published chord list is empty.
C18_ChordFloor ==
  Cardinality(Pcs(serviceActiveNotes)) < 3 =>
    /\ chords = <<>>
    /\ detectChords(cachedKey, serviceActiveNotes) = <<>>

\* Scenario: C4, C5 and F4 are three notes on two pitch classes.
C18_Witness ==
  /\ lastEvent.pass
  /\ Len(serviceActiveNotes) = 3
  /\ Pcs(serviceActiveNotes) = {"C", "F"}
  /\ chords = <<>>

\* ---------------------------------------------------------------------------
\* C19: chord quality.

\* The quality C19 gives the type tags of the chord dictionary.
StatedQuality ==
  [tag \in {Str(ChordTypes[i].name) : i \in DOMAIN ChordTypes} |->
     CASE tag = "major" -> "major"
       [] tag = "minor" -> "minor"
       [] tag = "diminished" -> "diminished"
       [] tag = "augmented" -> "augmented"
       [] tag \in {"suspended fourth", "suspended second"} -> "suspended"
       [] OTHER -> tag]

\* C19: every published chord has the quality its type tag stands for: major
\* for a tag with "maj", minor for "min", diminished for "dim", augmented for
\* "aug", suspended for "sus", the tag itself otherwise; the tags "diminished"
\* and "augmented" give diminished and augmented.
C19_QualityFromTag ==
  \A i \in DOMAIN chords : chords[i].quality = StatedQuality[chords[i].type]

\* ---------------------------------------------------------------------------
\* C20: Roman numerals.

\* The numeral C20 gives a chord with the root and the type tag, in the key.
StatedNumeral(key, root, tag) ==
  IF key = NoKey THEN NoNumeral
  ELSE LET scale == MajorKeyScale[key.keyName]
           degrees == {d \in DOMAIN scale : scale[d] = root}
       IN IF degrees = {} THEN NoNumeral
          ELSE LET degree == CHOOSE d \in degrees : TRUE
               IN CASE StatedQuality[tag] = "minor" -> ToLowerCase[degree]
                    [] StatedQuality[tag] = "diminished" -> ToLowerCase[degree] \o "°"
                    [] StatedQuality[tag] = "augmented" -> numerals[degree] \o "+"
                    [] OTHER -> numerals[degree]

\* C20: the numeral of every published chord is null without a cached key or
\* with a root outside the major scale on the key's tonic, and otherwise the
\* numeral of the root's degree: lower case for a minor chord, lower case with
\* a degree mark for a diminished one, upper case with a plus for an augmented
\* one, upper case for the rest.
C20_RomanNumeral ==
  LET detected == ChordDetect(UniquePitchClasses(serviceActiveNotes))
  IN \A i \in DOMAIN chords :
        chords[i].romanNumeral = StatedNumeral(cachedKey, detected[i].tonic, chords[i].type)

\* ---------------------------------------------------------------------------
\* C21: one complete pass per change of the registry.

\* The published outputs are those the engine's operations give for the
\* registry and the history as they are.
Fresh ==
  /\ Pcs(activeNotes) \subseteq Range(allPlayedNotes)
  /\ currentKey = detectKey(allPlayedNotes)
  /\ activeNotes = processNotes(cachedKey, activeNotes)
  /\ intervals = detectIntervals(activeNotes)
  /\ chords = detectChords(cachedKey, activeNotes)

C22_ScenarioA ==
  (lastEvent.type = "detect" /\ Range(allPlayedNotes) = WhiteKeys) =>
    /\ currentKey.keyName = "C major"
    /\ currentKey.notes = <<"C", "D", "E", "F", "G", "A", "B">>
    /\ currentKey.confidence.num = currentKey.confidence.den

\* ---------------------------------------------------------------------------
\* C23: unparseable note names.

\* The history without the entry an unparseable name leaves in it.
ParsedHistory == SelectSeq(allPlayedNotes, LAMBDA pc : pc # "")

C24_TickPassIffRemoved ==
  [][ TickStep =>
        LET removing == \E i \in DOMAIN activeNotes : Expired(activeNotes[i])
        IN /\ lastEvent'.pass <=> removing
           /\ removing => Len(activeNotes') < Len(activeNotes)
           /\ ~removing =>
                 UNCHANGED <<activeNotes, serviceActiveNotes, allPlayedNotes, cachedKey,
                             scaleMatches, currentKey, intervals, chords>> ]_vars

\* A tick removed nothing, after a reset that a pass would have undone: the
\* registry holds notes and the history is still empty.
C24_Witness ==
  /\ lastEvent = Event("tick", FALSE)
  /\ activeNotes # <<>>
  /\ allPlayedNotes = <<>>
  /\ currentKey # NoKey

\* ---------------------------------------------------------------------------
\* C25: the registry survives a reset.

\* C25: the first pass after a reset, whichever handler runs it, leaves the
\* history holding exactly the pitch classes of the registry's entries, held
\* or fading; the key is then estimated from them again.
C25_HistoryRebuiltFromRegistry ==
  [][ (allPlayedNotes = <<>> /\ lastEvent'.pass) =>
         /\ Range(allPlayedNotes') = Pcs(activeNotes')
         /\ currentKey' = detectKey(allPlayedNotes') ]_vars

\* A tick removed a note and ran the first pass after a reset: the history
\* is the pitch classes of the two entries left, without the pitch class of
\* the note removed, which no pass since that note's NoteOn could have left
\* out. (C4 and C5 share a pitch class, the other keys of Pitches do not.)
C25_Witness ==
  /\ lastEvent = Event("tick", TRUE)
  /\ Len(activeNotes) = 2
  /\ Range(allPlayedNotes) = Pcs(activeNotes)
  /\ "C" \notin Range(allPlayedNotes)

\* ---------------------------------------------------------------------------
\* C26: the legacy service's evidence floor.

\* C26: KeyDetectionService.detectKey returns null for notes with fewer than
\* three distinct pitch classes, also when the list has three entries.
C26_LegacyEvidenceFloor ==
  (lastEvent.type = "legacy" /\ Cardinality(Pcs(serviceActiveNotes)) < 3) =>
     currentKey = NoKey

\* ---------------------------------------------------------------------------
\* C27: a retriggered note and the cleanup of the voice it replaced.

\* The voices whose oscillators run on: created and never told to stop.
Sounding == {voice \in 1..created : voice \notin stopped}

\* C27: a voice stays in the voices map until a noteOff for its note comes
\* after the noteOn that created it: every voice that was not told to stop is
\* stored under a note, where the next noteOff finds it and stops it.
C27_NoStuckNote ==
  \A voice \in Sounding : \E note \in DOMAIN voices : voices[note] = voice

\* ---------------------------------------------------------------------------
\* C28: the page number of the multi-page viewer.

\* C28: with a document of at least one page loaded, the page number is
\* between 1 and the page count, whatever pagesPerView in 1..4 is.
C28_PageNumInRange ==
  (pdfDoc /\ pageCount >= 1) => (1 <= pageNum /\ pageNum <= pageCount)

\* ---------------------------------------------------------------------------
\* C29: the render queue of the single-page viewer.

\* C29: at most one render is under way, and when none is under way no
\* request is pending and the render that finished last was of the current
\* page.
C29_RenderQueue ==
  /\ Len(rendering) <= 1
  /\ (pdfDoc /\ rendering = <<>>) =>
        /\ pageNumPending = <<>>
        /\ lastRendered = <<pageNum>>

\* ---------------------------------------------------------------------------
\* C30: the callbacks on the singleton controller service.

\* The mounted components that register a callback for the event type.
RegisteredBy(eventType) ==
  {m \in mounted : eventType \in Range(Registers(m.component))}

\* C30: a key press invokes callbacks of mounted components only, and none
\* once the service was destroyed; an event type holds no more callbacks than
\* there are mounted components that registered for it.
C30_CallbacksEndWithComponent ==
  /\ invoked \subseteq mounted
  /\ ~isRunning => invoked = {}
  /\ \A eventType \in eventTypes :
       Len(listeners[eventType]) <= Cardinality(RegisteredBy(eventType))

====
